---- MODULE Spec2Model ----
(***************************************************************************)
(* Slot resolution and proposal confirmation of the SchedulAI service.     *)
(*                                                                         *)
(* A datetime is a whole number of hours counted from midnight of a Monday *)
(* (hour of day = t % 24, weekday = (t \div 24) % 7); a duration is a      *)
(* number of minutes, as in the source.  isoformat()/fromisoformat()       *)
(* round-trip a datetime exactly, so a slot dictionary carries the same    *)
(* integers as the TimeSlot it was made from.                              *)
(***************************************************************************)
EXTENDS Integers, Sequences, FiniteSets, TLC

VARIABLES
    \* ---- GoogleService._calculate_free_slots, called on its own ----
    start_date,          \* window start handed to _calculate_free_slots
    end_date,            \* window end
    busy_slots,          \* the busy TimeSlots, in the provider's order
    free_slots,          \* the returned free TimeSlots
    fpc,                 \* "call" before the call, "done" after it
    \* ---- one scheduling run of SchedulingAgent.schedule_meeting ----
    calendars,           \* provider side: the busy periods of each participant
    meeting_request,     \* the MeetingRequest of the run
    rpc,                 \* position of the run
    availability_responses, \* list built by get_calendar_availability
    fetch_outcome,       \* what the provider did for each participant so far
    availability_data,   \* the availability_data argument of the analysis
    common_slots,        \* _analyze_optimal_slots: common_slots when it returns
    suggested_slots,     \* _analyze_optimal_slots: suggested_slots
    schedule_result,     \* what schedule_meeting returned
    \* ---- SchedulingAgent.proposals and what confirmations leave behind ----
    proposals,           \* proposal id -> MeetingProposal (ids are 1, 2, ...)
    calendar_events,     \* events the calendar provider has created
    sent_emails,         \* confirmation emails sent, by proposal id
    confirm_answer,      \* the answer to the latest confirm request
    confirm_count,       \* confirm requests answered so far
    \* ---- one request of the experiment agent (DeepSeekSchedulingAgent) ----
    email_content,       \* the time phrases found in the email text
    participants,        \* participant_emails: organizer first, no duplicates
    calendar_data,       \* the events of each participant, in that order
    parsed_info,         \* what parse_email_with_deepseek returned
    optimal_slots,       \* _calculate_optimal_time_slots: the ranked slots
    conflict_resolution, \* what _intelligent_conflict_resolution returned
    alternatives,        \* what _generate_intelligent_alternatives returned
    epc,                 \* position of the experiment agent
    \* ---- the scheduling routes of the service ----
    http_request,        \* the latest POST /schedule or /schedule-legacy body
    http_response,       \* the answer to it
    http_count,          \* scheduling requests answered so far
    receive_request,     \* the last body posted to /receive
    receive_response,    \* and its answer
    fetch_count,         \* participants whose availability was fetched so far
    \* ---- get_agent_service (app/api/dependencies.py) ----
    _agent_service,      \* the module global: 0 for None, else an agent
    agent_proposals,     \* agent_proposals[a]: the proposal ids agent a stores
    dep_request,         \* per client: the request it is making
    dep_pc,              \* per client: its position in that request
    dep_new,             \* per client: the agent its constructor call made
    dep_agent,           \* per client: what get_agent_service returned
    dep_result           \* per client: the status code of its last request

freeVars == <<start_date, end_date, busy_slots, free_slots, fpc>>
runVars == <<calendars, meeting_request, rpc, availability_responses,
             fetch_outcome, availability_data, common_slots, suggested_slots,
             schedule_result>>

storeVars == <<proposals, calendar_events, sent_emails, confirm_answer, confirm_count>>

expVars == <<email_content, participants, calendar_data, parsed_info, optimal_slots,
             conflict_resolution, alternatives, epc>>

depVars == <<_agent_service, agent_proposals, dep_request, dep_pc, dep_new,
             dep_agent, dep_result>>

routeVars == <<http_request, http_response, http_count, fetch_count,
               receive_request, receive_response, depVars>>

vars == <<freeVars, runVars, storeVars, expVars, routeVars>>

-----------------------------------------------------------------------------
\* Bounds of the model.
FirstHour == 9           \* datetimes range over FirstHour..LastHour
LastHour == 13
MaxBusy == 3             \* longest busy list handed to _calculate_free_slots

Times == FirstHour..LastHour

Max(a, b) == IF a >= b THEN a ELSE b
Min(a, b) == IF a <= b THEN a ELSE b

\* All sequences over S of length at most n.
SeqUpTo(S, n) == UNION {[1..k -> S] : k \in 0..n}

-----------------------------------------------------------------------------
\* app/models/meeting.py: TimeSlot (the timezone field is always "UTC").
TimeSlot(s, e, a) == [start_time |-> s, end_time |-> e, available |-> a]

\* list.sort(key=lambda x: x.start_time): a stable sort by start_time.
RECURSIVE InsertByStartTime(_, _)
InsertByStartTime(x, s) ==
    IF s = <<>> THEN <<x>>
    ELSE IF Head(s).start_time < x.start_time
         THEN <<Head(s)>> \o InsertByStartTime(x, Tail(s))
         ELSE <<x>> \o s

RECURSIVE SortByStartTime(_)
SortByStartTime(s) ==
    IF s = <<>> THEN <<>>
    ELSE InsertByStartTime(Head(s), SortByStartTime(Tail(s)))

\* The normalisation loop of _calculate_free_slots: a copy of each busy slot
\* with available=False (tzinfo is dropped only when the window is naive;
\* the provider reports busy times in UTC, so the instant is unchanged).
normalized_busy_slots(busy) ==
    [i \in 1..Len(busy) |-> TimeSlot(busy[i].start_time, busy[i].end_time, FALSE)]

\* "current_time = busy_slot.end_time": the cursor forgets how far it got.
AdvanceCursor_NoMax(current_time, busy_slot) == busy_slot.end_time

\* "current_time = max(current_time, busy_slot.end_time)"
AdvanceCursor(current_time, busy_slot) == Max(current_time, busy_slot.end_time)

\* The sweep over the sorted busy slots followed by the final free slot.
RECURSIVE Sweep(_, _, _, _)
Sweep(sorted, current_time, end, acc) ==
    IF sorted = <<>>
    THEN IF current_time < end
         THEN Append(acc, TimeSlot(current_time, end, TRUE))
         ELSE acc
    ELSE LET busy_slot == Head(sorted)
             acc2 == IF current_time < busy_slot.start_time
                     THEN Append(acc, TimeSlot(current_time, busy_slot.start_time, TRUE))
                     ELSE acc
         IN Sweep(Tail(sorted), AdvanceCursor(current_time, busy_slot), end, acc2)

_calculate_free_slots(start, end, busy) ==
    Sweep(SortByStartTime(normalized_busy_slots(busy)), start, end, <<>>)

-----------------------------------------------------------------------------
\* SchedulingAgent (app/services/agent_service.py).

\* Python's slot.end_time - slot.start_time, in minutes.
TotalMinutes(s, e) == (e - s) * 60
\* timedelta(minutes=m), for the whole-hour durations of the model.
Timedelta(m) == m \div 60

\* A free-slot dictionary of availability_data.
FreeDict(s, e, d) == [start_time |-> s, end_time |-> e, duration_minutes |-> d]

\* The JSON conversion of one AvailabilityResponse in
\* _get_calendar_availability: only free slots of duration_minutes or more.
AvailabilityEntry(response, duration_minutes) ==
    LET long == SelectSeq(response.free_slots,
                       LAMBDA slot : TotalMinutes(slot.start_time, slot.end_time)
                                         >= duration_minutes)
    IN [participant_email |-> response.participant_email,
        free_slots |-> [i \in 1..Len(long) |->
                           FreeDict(long[i].start_time, long[i].end_time,
                                    TotalMinutes(long[i].start_time, long[i].end_time))],
        busy_slots |-> [i \in 1..Len(response.busy_slots) |->
                           [start_time |-> response.busy_slots[i].start_time,
                            end_time |-> response.busy_slots[i].end_time]]]

\* new_common_slots.append({...}): the overlap cut to the required duration.
OverlapSlot(overlap_start, overlap_end, required_duration) ==
    FreeDict(overlap_start, overlap_start + Timedelta(required_duration),
             required_duration)

\* "if overlap_duration >= required_duration"
OverlapLongEnough(overlap_start, overlap_end, required_duration) ==
    TotalMinutes(overlap_start, overlap_end) >= required_duration

\* The inner loop: one common slot against every slot of the participant.
RECURSIVE OverlapsWith(_, _, _)
OverlapsWith(common_slot, participant_slots, required_duration) ==
    IF participant_slots = <<>> THEN <<>>
    ELSE LET participant_slot == Head(participant_slots)
             overlap_start == Max(common_slot.start_time, participant_slot.start_time)
             overlap_end == Min(common_slot.end_time, participant_slot.end_time)
             rest == OverlapsWith(common_slot, Tail(participant_slots), required_duration)
         IN IF overlap_start < overlap_end
               /\ OverlapLongEnough(overlap_start, overlap_end, required_duration)
            THEN <<OverlapSlot(overlap_start, overlap_end, required_duration)>> \o rest
            ELSE rest

\* The middle loop: new_common_slots for one participant.
RECURSIVE NewCommonSlots(_, _, _)
NewCommonSlots(common, participant_slots, required_duration) ==
    IF common = <<>> THEN <<>>
    ELSE OverlapsWith(Head(common), participant_slots, required_duration)
         \o NewCommonSlots(Tail(common), participant_slots, required_duration)

\* The outer loop over availability_data[1:].
RECURSIVE IntersectRest(_, _, _)
IntersectRest(common, rest, required_duration) ==
    IF rest = <<>> THEN common
    ELSE IntersectRest(NewCommonSlots(common, Head(rest).free_slots, required_duration),
                       Tail(rest), required_duration)

\* common_slots of _analyze_optimal_slots after the intersection loop.
CommonSlots(data, required_duration) ==
    IF data = <<>> THEN <<>>
    ELSE IntersectRest(data[1].free_slots, Tail(data), required_duration)

\* A float score is coded as 10 * (its value in tenths, rounded) plus -1, 0
\* or 1 when the double lies just below, on, or just above the double of
\* that decimal; the code is monotone in the double.  FloatAdd is IEEE-754
\* double addition of a delta given in tenths; the listed pairs are the
\* sums that do not round to the double of the decimal sum.
FloatAdd(score, tenths) ==
    CASE score = 10 /\ tenths = 2 -> 31
      [] score = 20 /\ tenths = 1 -> 31
      [] score = 30 /\ tenths = -2 -> 9
      [] score = 31 /\ tenths = 1 -> 40
      [] score = 31 /\ tenths = 2 -> 50
      [] score = 40 /\ tenths = 2 -> 61
      [] score = 60 /\ tenths = -2 -> 39
      [] score = 70 /\ tenths = -2 -> 49
      [] score = 80 /\ tenths = -2 -> 61
      [] OTHER -> score + 10 * tenths

Hour(t) == t % 24
Weekday(t) == (t \div 24) % 7

\* "if 12 <= hour <= 13": the hours that get the lunch penalty.
LunchTime(hour) == 12 <= hour /\ hour <= 13

\* The score of _score_time_slot before its last step, the lunch penalty.
ScoreBeforeLunch(slot, requirements) ==
    LET hour == Hour(slot.start_time)
        weekday == Weekday(slot.start_time)
        s1 == IF 9 <= hour /\ hour <= 11 THEN FloatAdd(0, 3)
              ELSE IF 13 <= hour /\ hour <= 15 THEN FloatAdd(0, 2)
              ELSE IF 8 <= hour /\ hour <= 16 THEN FloatAdd(0, 1)
              ELSE 0
        s2 == IF weekday \in {1, 2, 3} THEN FloatAdd(s1, 2)
              ELSE IF weekday \in {0, 4} THEN FloatAdd(s1, 1)
              ELSE s1
        s3 == IF requirements.priority = "urgent"
              THEN FloatAdd(s2, IF hour <= 12 THEN 3 ELSE 1)
              ELSE IF requirements.priority = "low"
                   THEN FloatAdd(s2, IF hour >= 14 THEN 2 ELSE 0)
                   ELSE s2
    IN s3

_score_time_slot(slot, requirements) ==
    LET score == ScoreBeforeLunch(slot, requirements)
    IN IF LunchTime(Hour(slot.start_time)) THEN FloatAdd(score, -2) ELSE score

\* scored_slots.sort(key=lambda x: x[1], reverse=True): stable, descending.
RECURSIVE InsertByScore(_, _)
InsertByScore(x, s) ==
    IF s = <<>> THEN <<x>>
    ELSE IF Head(s)[2] > x[2]
         THEN <<Head(s)>> \o InsertByScore(x, Tail(s))
         ELSE <<x>> \o s

RECURSIVE SortByScore(_)
SortByScore(s) ==
    IF s = <<>> THEN <<>>
    ELSE InsertByScore(Head(s), SortByScore(Tail(s)))

\* s[:n]
Prefix(s, n) == SubSeq(s, 1, Min(n, Len(s)))

max_suggestions == 3

\* _analyze_optimal_slots; common_slots is kept beside what it returns.
_analyze_optimal_slots(data, meeting_requirements) ==
    IF data = <<>>
    THEN [suggested_slots |-> <<>>, common_slots |-> <<>>]
    ELSE LET common == CommonSlots(data, meeting_requirements.duration_minutes)
             candidates == Prefix(common, max_suggestions * 2)
             scored_slots == SortByScore(
                 [i \in 1..Len(candidates) |->
                     <<candidates[i], _score_time_slot(candidates[i], meeting_requirements)>>])
             top == Prefix(scored_slots, max_suggestions)
         IN [suggested_slots |-> [i \in 1..Len(top) |-> top[i][1]],
             common_slots |-> common]

\* app/models/meeting.py: MeetingProposal, status "pending" by default.
MeetingProposal(request, slots, reasoning) ==
    [meeting_request |-> request,
     suggested_slots |-> [i \in 1..Len(slots) |->
                             TimeSlot(slots[i].start_time, slots[i].end_time, TRUE)],
     reasoning |-> reasoning,
     status |-> "pending"]

\* "self.proposals[proposal_id] = proposal" under an id that is not the
\* last one stored: the newest proposal is overwritten.
StoreProposal_ReusedId(store, proposal) ==
    IF store = <<>> THEN <<proposal>>
    ELSE [store EXCEPT ![Len(store)] = proposal]

\* "self.proposals[proposal_id] = proposal" with proposal_id = uuid4(): a
\* key no stored proposal has (ids are 1, 2, ... in the order of storing).
StoreProposal(store, proposal) == Append(store, proposal)

\* The meeting_requirements the agent hands to analyze_optimal_slots.
Requirements(request) ==
    [duration_minutes |-> request.duration_minutes, priority |-> request.priority]

-----------------------------------------------------------------------------
\* DeepSeekSchedulingAgent (experiment/main_vllm_deepseek.py).
\*
\* A time of the experiment agent is a number of minutes counted from
\* midnight of the meeting date; the source holds it as the string
\* "YYYY-MM-DDTHH:MM:SS+05:30" and compares such strings with < and >,
\* which for one fixed offset is the order of the instants.

ExpTime(day, hour) == (day * 24 + hour) * 60
ExpHour(t) == (t % (24 * 60)) \div 60

\* An email is the set of the time phrases its text contains; an address
\* is its prefix before "@".
_extract_time_intelligence(content_lower) ==
    IF "11:00" \in content_lower \/ "11 am" \in content_lower
    THEN [preference |-> "late_morning",
          constraints |-> "11:00 AM specifically requested"]
    ELSE IF "morning" \in content_lower
    THEN [preference |-> "morning", constraints |-> "Morning preference indicated"]
    ELSE IF "afternoon" \in content_lower
    THEN [preference |-> "afternoon", constraints |-> "Afternoon preference indicated"]
    ELSE [preference |-> "flexible", constraints |-> ""]

\* _calculate_optimal_duration for an email without duration words
\* ("quick", "workshop", ...); a complex meeting needs preparation.
_calculate_optimal_duration(complexity, attendee_count, authority) ==
    LET base == 30 + (IF complexity = "complex" THEN 30
                      ELSE IF complexity = "moderate" THEN 15 ELSE 0)
        sized == IF attendee_count > 5 THEN base + 20
                 ELSE IF attendee_count > 3 THEN base + 10 ELSE base
        capped == IF authority = "high" THEN Min(sized, 45) ELSE sized
        prepared == IF complexity = "complex" THEN capped + 15 ELSE capped
    IN Max(15, Min(prepared, 120))

\* "'11:00' in time_constraints": of the constraint texts only the first
\* contains it.
Has1100(time_constraints) == time_constraints = "11:00 AM specifically requested"

\* _analyze_participant_priorities, for one participant.
ParticipantPriority(participant) ==
    CASE participant \in {"admin", "ceo", "director", "head"} ->
             [level |-> "critical", weight |-> 10]
      [] participant \in {"manager", "lead", "senior"} ->
             [level |-> "high", weight |-> 8]
      [] participant \in {"team", "dev", "engineer"} ->
             [level |-> "medium", weight |-> 6]
      [] OTHER -> [level |-> "standard", weight |-> 5]

_analyze_participant_priorities(participant_list) ==
    [i \in 1..Len(participant_list) |-> ParticipantPriority(participant_list[i])]

\* "if slot_start <= event_end and slot_end >= event_start": touching
\* intervals count as overlapping.
EventOverlaps_Closed(slot_start, slot_end, event) ==
    slot_start <= event.EndTime /\ slot_end >= event.StartTime

\* "if slot_start < event_end and slot_end > event_start"
EventOverlaps(slot_start, slot_end, event) ==
    slot_start < event.EndTime /\ slot_end > event.StartTime

\* The inner loop of _calculate_slot_score: the conflicts of one
\* participant, one for each overlapping event, in the order of the events.
RECURSIVE ConflictsWith(_, _, _, _, _)
ConflictsWith(slot_start, slot_end, participant, events, priority) ==
    IF events = <<>> THEN <<>>
    ELSE LET event == Head(events)
             rest == ConflictsWith(slot_start, slot_end, participant, Tail(events),
                                   priority)
         IN IF EventOverlaps(slot_start, slot_end, event)
            THEN <<[participant |-> participant, event |-> event.Summary,
                    severity |-> priority.weight * 5,
                    priority_level |-> priority.level]>> \o rest
            ELSE rest

\* The outer loop, over calendar_data.items() (the participants in order).
RECURSIVE SlotConflicts(_, _, _, _, _)
SlotConflicts(slot_start, slot_end, participant_list, calendar, priorities) ==
    IF participant_list = <<>> THEN <<>>
    ELSE ConflictsWith(slot_start, slot_end, Head(participant_list), Head(calendar),
                       Head(priorities))
         \o SlotConflicts(slot_start, slot_end, Tail(participant_list), Tail(calendar),
                          Tail(priorities))

RECURSIVE SumSeverity(_)
SumSeverity(conflicts) ==
    IF conflicts = <<>> THEN 0
    ELSE Head(conflicts).severity + SumSeverity(Tail(conflicts))

\* The bonuses of _calculate_slot_score: time preference, urgency,
\* complexity.
SlotBonus(hour, info) ==
    (IF info.optimal_time_preference = "morning" /\ 9 <= hour /\ hour <= 11 THEN 10
     ELSE IF info.optimal_time_preference = "afternoon" /\ 14 <= hour /\ hour <= 16
          THEN 10 ELSE 0)
    + (IF info.urgency = "high" THEN 15 ELSE 0)
    + (IF info.meeting_complexity = "complex" /\ 9 <= hour /\ hour <= 11 THEN 5 ELSE 0)

_calculate_slot_score(slot_start, slot_end, participant_list, calendar, priorities, info) ==
    LET conflicts == SlotConflicts(slot_start, slot_end, participant_list, calendar,
                                   priorities)
        total_score == 100 - SumSeverity(conflicts) + SlotBonus(ExpHour(slot_start), info)
    IN [total_score |-> Max(0, total_score), conflicts |-> conflicts]

\* candidate_times of _calculate_optimal_time_slots.
candidate_times(info) ==
    IF Has1100(info.time_constraints) THEN <<11>>
    ELSE IF info.optimal_time_preference = "morning" THEN <<9, 10, 11>>
    ELSE IF info.optimal_time_preference = "afternoon" THEN <<14, 15, 16>>
    ELSE <<9, 10, 11, 14, 15, 16>>

\* A sort that puts a slot ahead of the slots of equal score already there.
RECURSIVE InsertSlotByScore_TiesReversed(_, _)
InsertSlotByScore_TiesReversed(x, s) ==
    IF s = <<>> THEN <<x>>
    ELSE IF Head(s).score >= x.score
         THEN <<Head(s)>> \o InsertSlotByScore_TiesReversed(x, Tail(s))
         ELSE <<x>> \o s

\* optimal_slots.sort(key=lambda x: x["score"], reverse=True): stable, so
\* slots of equal score keep the order they were appended in.
RECURSIVE InsertSlotByScore(_, _)
InsertSlotByScore(x, s) ==
    IF s = <<>> THEN <<x>>
    ELSE IF Head(s).score > x.score
         THEN <<Head(s)>> \o InsertSlotByScore(x, Tail(s))
         ELSE <<x>> \o s

RECURSIVE SortSlotsByScore(_)
SortSlotsByScore(s) ==
    IF s = <<>> THEN <<>>
    ELSE InsertSlotByScore(Head(s), SortSlotsByScore(Tail(s)))

\* _calculate_optimal_time_slots: one slot for each candidate hour of the
\* meeting date (day 0), scored, then sorted by score.
_calculate_optimal_time_slots(duration, info, participant_list, calendar, priorities) ==
    LET hours == candidate_times(info)
        slot(hour) ==
            LET slot_start == ExpTime(0, hour)
                slot_end == slot_start + duration
                score == _calculate_slot_score(slot_start, slot_end, participant_list,
                                               calendar, priorities, info)
            IN [start |-> slot_start, end |-> slot_end, score |-> score.total_score,
                conflicts |-> score.conflicts]
    IN SortSlotsByScore([i \in 1..Len(hours) |-> slot(hours[i])])

\* Python's None where a slot dictionary is expected.
NoSlot == [start |-> 0 - 1, end |-> 0 - 1, score |-> 0, conflicts |-> <<>>]

\* The strategy when either of urgency and authority is high.
StrategyFor_EitherHigh(urgency, authority) ==
    IF urgency = "high" \/ authority = "high" THEN "override_lower_priority"
    ELSE "collaborative_optimization"

\* The strategy selection of _intelligent_conflict_resolution.
StrategyFor(urgency, authority) ==
    IF urgency = "high" /\ authority = "high" THEN "override_lower_priority"
    ELSE IF urgency = "high" THEN "find_immediate_alternative"
    ELSE IF authority = "high" THEN "executive_priority"
    ELSE "collaborative_optimization"

_intelligent_conflict_resolution(slots, info) ==
    LET best_slot == IF slots # <<>> THEN slots[1] ELSE NoSlot
        conflicts_detected == best_slot # NoSlot /\ Len(best_slot.conflicts) > 0
        actions == <<"Send calendar invitations", "Confirm participant availability",
                     "Set up meeting preparation materials">>
        notified == IF conflicts_detected
                    THEN <<"Notify participants of potential conflicts">> \o actions
                    ELSE actions
    IN [recommended_slot |-> best_slot,
        conflicts_detected |-> conflicts_detected,
        strategy_used |-> StrategyFor(info.urgency, info.attendee_priority),
        recommended_actions |->
            IF conflicts_detected /\ info.urgency = "high"
            THEN <<"Request conflict resolution from participants">> \o notified
            ELSE notified]

\* alternative_strategies, as offsets in minutes.
alternative_strategies ==
    <<[offset |-> 60, reason |-> "One hour later - minimal disruption"],
      [offset |-> 120, reason |-> "Two hours later - afternoon alternative"],
      [offset |-> 0 - 60, reason |-> "One hour earlier - morning alternative"],
      [offset |-> 24 * 60, reason |-> "Next day - same time slot"]>>

\* "if 8 <= alt_time.hour <= 17"
WithinBusinessHours_From8(hour) == 8 <= hour /\ hour <= 17

\* "if 9 <= alt_time.hour <= 17"
WithinBusinessHours(hour) == 9 <= hour /\ hour <= 17

\* The loop of _generate_intelligent_alternatives over the strategies.
RECURSIVE AlternativesFor(_, _, _)
AlternativesFor(base_time, strategies, duration) ==
    IF strategies = <<>> THEN <<>>
    ELSE LET strategy == Head(strategies)
             alt_time == base_time + strategy.offset
             rest == AlternativesFor(base_time, Tail(strategies), duration)
         IN IF WithinBusinessHours(ExpHour(alt_time))
            THEN <<[start |-> alt_time, end |-> alt_time + duration,
                    score |-> IF strategy.offset = 60 THEN 85 ELSE 75,
                    reason |-> strategy.reason]>> \o rest
            ELSE rest

_generate_intelligent_alternatives(recommended_slot, duration) ==
    IF recommended_slot = NoSlot THEN <<>>
    ELSE Prefix(AlternativesFor(recommended_slot.start, alternative_strategies, duration), 3)

-----------------------------------------------------------------------------
\* One scheduling run.  The agent model follows the function prompt of
\* vllm_service.py: it calls get_calendar_availability, then
\* analyze_optimal_slots with meeting_requirements taken from the request.

MaxParticipants == 3     \* most attendees of one run
DurationChoices == {60, 120}
PriorityChoices == {"medium", "urgent"}

Instants == FirstHour..(LastHour - 1)

MeetingRequests ==
    [duration_minutes : DurationChoices, priority : PriorityChoices,
     attendees : 1..MaxParticipants]

NoResult == [success |-> FALSE, error |-> "none", proposal_id |-> 0]

\* The free-slot dictionaries of a participant who is free exactly at the
\* instants of S: maximal stretches in ascending order, of any length.
FreeDictsOf(S) ==
    LET busy == SelectSeq([i \in 1..(LastHour - FirstHour) |->
                              TimeSlot(FirstHour + i - 1, FirstHour + i, FALSE)],
                          LAMBDA b : b.start_time \notin S)
        free == _calculate_free_slots(FirstHour, LastHour, busy)
    IN [i \in 1..Len(free) |->
           FreeDict(free[i].start_time, free[i].end_time,
                    TotalMinutes(free[i].start_time, free[i].end_time))]

FreeLists == {FreeDictsOf(S) : S \in SUBSET Instants}

FreeIdle ==
    /\ start_date = FirstHour /\ end_date = LastHour
    /\ busy_slots = <<>> /\ free_slots = <<>> /\ fpc = "idle"

NoAnswer == [proposal_id |-> 0, slot_index |-> 0, status_code |-> 0, detail |-> "none"]

StoreEmpty ==
    /\ proposals = <<>>
    /\ calendar_events = <<>>
    /\ sent_emails = <<>>
    /\ confirm_answer = NoAnswer
    /\ confirm_count = 0

NoParsedInfo ==
    [duration_minutes |-> 30, time_constraints |-> "", urgency |-> "medium",
     attendee_priority |-> "medium", meeting_complexity |-> "simple",
     optimal_time_preference |-> "flexible"]

NoResolution ==
    [recommended_slot |-> NoSlot, conflicts_detected |-> FALSE,
     strategy_used |-> "", recommended_actions |-> <<>>]

ExpIdle ==
    /\ email_content = {}
    /\ participants = <<>>
    /\ calendar_data = <<>>
    /\ parsed_info = NoParsedInfo
    /\ optimal_slots = <<>>
    /\ conflict_resolution = NoResolution
    /\ alternatives = <<>>
    /\ epc = "idle"

NoRequest == [route |-> "none", duration_minutes |-> 0, participants |-> 0]
NoResponse == [status_code |-> 0, success |-> FALSE]

\* No body posted to /receive yet.
NoTime == [date |-> 0, minute |-> 0]
NoReceiveRequest ==
    [app |-> "none", Start |-> NoTime, End |-> NoTime, Duration_mins |-> 0,
     Subject |-> "", Attendees |-> <<>>, EmailContent |-> {}]
NoReceiveResponse ==
    [status_code |-> 0, EventStart |-> NoTime, EventEnd |-> NoTime, Attendees |-> <<>>]

MaxClients == 2          \* clients that make requests at the same time
Clients == 1..MaxClients

\* No request has asked for the agent yet.
DepIdle ==
    /\ _agent_service = 0
    /\ agent_proposals = <<>>
    /\ dep_request = [c \in Clients |-> "none"]
    /\ dep_pc = [c \in Clients |-> "idle"]
    /\ dep_new = [c \in Clients |-> 0]
    /\ dep_agent = [c \in Clients |-> 0]
    /\ dep_result = [c \in Clients |-> 0]

RouteIdle ==
    /\ DepIdle
    /\ http_request = NoRequest
    /\ http_response = NoResponse
    /\ http_count = 0
    /\ fetch_count = 0
    /\ receive_request = NoReceiveRequest
    /\ receive_response = NoReceiveResponse

RunIdle ==
    /\ calendars = <<>>
    /\ meeting_request = [duration_minutes |-> 60, priority |-> "medium", attendees |-> 1]
    /\ rpc = "idle"
    /\ availability_responses = <<>>
    /\ fetch_outcome = <<>>
    /\ availability_data = <<>>
    /\ common_slots = <<>>
    /\ suggested_slots = <<>>
    /\ schedule_result = NoResult

\* The analyze_optimal_slots tool call with the arguments the agent gives.
AnalyzeOptimalSlots ==
    /\ rpc = "analyze"
    /\ LET function_result ==
               _analyze_optimal_slots(availability_data, Requirements(meeting_request))
       IN /\ common_slots' = function_result.common_slots
          /\ suggested_slots' = function_result.suggested_slots
    /\ rpc' = "process"
    /\ UNCHANGED <<expVars, routeVars, freeVars, calendars, meeting_request, availability_responses,
                   fetch_outcome, availability_data, schedule_result, storeVars>>

\* The rest of _process_agent_response: the final completion, then the
\* proposal is created and stored when there are suggested slots.  A
\* completion that raises ends schedule_meeting with "Agent error".
ProcessAgentResponse ==
    /\ rpc = "process"
    /\ \E final_response_ok \in BOOLEAN :
          IF ~final_response_ok
          THEN /\ schedule_result' = [success |-> FALSE, error |-> "Agent error",
                                      proposal_id |-> 0]
               /\ UNCHANGED proposals
          ELSE IF suggested_slots # <<>>
          THEN /\ proposals' = StoreProposal(proposals,
                      MeetingProposal(meeting_request, suggested_slots,
                                      <<Len(common_slots), Len(suggested_slots)>>))
               /\ schedule_result' = [success |-> TRUE, error |-> "",
                                      proposal_id |-> Len(proposals) + 1]
          ELSE /\ schedule_result' = [success |-> FALSE,
                                      error |-> "No suitable meeting slots found",
                                      proposal_id |-> 0]
               /\ UNCHANGED proposals
    /\ rpc' = "done"
    /\ UNCHANGED <<expVars, routeVars, freeVars, calendars, meeting_request, availability_responses,
                   fetch_outcome, availability_data, common_slots, suggested_slots,
                   calendar_events, sent_emails, confirm_answer, confirm_count>>

\* The analysis on its own: any free-interval lists as availability_data.
AnalyzeInit ==
    /\ FreeIdle
    /\ calendars = <<>>
    /\ meeting_request \in MeetingRequests
    /\ rpc = "analyze"
    /\ availability_responses = <<>>
    /\ fetch_outcome = <<>>
    /\ \E frees \in [1..meeting_request.attendees -> FreeLists] :
          availability_data =
              [i \in 1..meeting_request.attendees |->
                  [participant_email |-> i, free_slots |-> frees[i], busy_slots |-> <<>>]]
    /\ common_slots = <<>>
    /\ suggested_slots = <<>>
    /\ schedule_result = NoResult
    /\ StoreEmpty
    /\ ExpIdle
    /\ RouteIdle

AnalyzeNext == AnalyzeOptimalSlots \/ ProcessAgentResponse

SpecAnalyze == AnalyzeInit /\ [][AnalyzeNext]_vars

-----------------------------------------------------------------------------
\* The analysis over a week: one participant whose free slots are one-hour
\* stretches between meetings, from Monday 09:00 to Saturday 12:00, in
\* ascending order as _calculate_free_slots returns them.

MaxWindows == 7          \* most free slots of the participant

\* The hours (from Monday 00:00) at which a free stretch may start.
RankStarts == {9, 11, 13, 15, 17, 24 + 10, 24 + 12, 24 + 15, 48 + 10, 5 * 24 + 12}

\* The one-hour free slots that start at the hours of S, ascending.
RECURSIVE HourSlots(_)
HourSlots(S) ==
    IF S = {} THEN <<>>
    ELSE LET first == CHOOSE h \in S : \A g \in S : h <= g
         IN <<FreeDict(first, first + 1, 60)>> \o HourSlots(S \ {first})

RankInit ==
    /\ FreeIdle
    /\ calendars = <<>>
    /\ meeting_request \in [duration_minutes : {60}, priority : PriorityChoices,
                             attendees : {1}]
    /\ rpc = "analyze"
    /\ availability_responses = <<>>
    /\ fetch_outcome = <<>>
    /\ \E S \in SUBSET RankStarts :
          /\ Cardinality(S) <= MaxWindows
          /\ availability_data =
                 <<[participant_email |-> 1, free_slots |-> HourSlots(S),
                    busy_slots |-> <<>>]>>
    /\ common_slots = <<>>
    /\ suggested_slots = <<>>
    /\ schedule_result = NoResult
    /\ StoreEmpty
    /\ ExpIdle
    /\ RouteIdle

SpecRanking == RankInit /\ [][AnalyzeNext]_vars

-----------------------------------------------------------------------------
\* The availability fetch (GoogleService.get_calendar_availability, called
\* by the get_calendar_availability tool) and the whole run.

CalendarMaxBusy == 1     \* most busy periods in one provider calendar
MaxFetched == 2          \* most attendees of a run that fetches calendars

\* Busy periods the provider reports: start < end, inside the window.
ProviderPeriods ==
    {TimeSlot(w[1], w[2], FALSE) : w \in {v \in Times \X Times : v[1] < v[2]}}

\* A freebusy answer lists its busy periods merged and in ascending order.
ProviderCalendars ==
    {cal \in SeqUpTo(ProviderPeriods, CalendarMaxBusy) :
        \A i \in 1..(Len(cal) - 1) : cal[i].end_time < cal[i + 1].start_time}

\* app/models/meeting.py: AvailabilityResponse.
AvailabilityResponse(email, free, busy) ==
    [participant_email |-> email, free_slots |-> free, busy_slots |-> busy]

\* The response appended when the user is external, has no calendar
\* service, or the freebusy query raises HttpError: no free slot at all.
EmptyAvailability(email, start, end) == AvailabilityResponse(email, <<>>, <<>>)

\* The response for a freebusy answer with the given busy periods.
FetchedAvailability(email, start, end, busy) ==
    AvailabilityResponse(email, _calculate_free_slots(start, end, busy), busy)

FetchOutcomes == {"ok", "external", "no_service", "http_error"}

ResolveInit ==
    /\ FreeIdle
    /\ meeting_request \in {r \in MeetingRequests : r.attendees <= MaxFetched}
    /\ calendars \in [1..meeting_request.attendees -> ProviderCalendars]
    /\ rpc = "start"
    /\ availability_responses = <<>>
    /\ fetch_outcome = <<>>
    /\ availability_data = <<>>
    /\ common_slots = <<>>
    /\ suggested_slots = <<>>
    /\ schedule_result = NoResult
    /\ StoreEmpty
    /\ ExpIdle
    /\ RouteIdle

\* schedule_meeting up to the tool calls: the first completion raises
\* ("Agent error"), carries no tool call, or carries the tool calls.
CreateChatCompletion ==
    /\ rpc = "start"
    /\ \E response \in {"raises", "no_tool_calls", "tool_calls"} :
          CASE response = "raises" ->
                  /\ schedule_result' = [success |-> FALSE, error |-> "Agent error",
                                         proposal_id |-> 0]
                  /\ rpc' = "done"
            [] response = "no_tool_calls" ->
                  /\ schedule_result' =
                         [success |-> FALSE,
                          error |-> "Agent didn't call any tools to schedule the meeting",
                          proposal_id |-> 0]
                  /\ rpc' = "done"
            [] response = "tool_calls" ->
                  /\ rpc' = "fetch"
                  /\ UNCHANGED schedule_result
    /\ UNCHANGED <<expVars, routeVars, freeVars, calendars, meeting_request, availability_responses,
                   fetch_outcome, availability_data, common_slots, suggested_slots,
                   storeVars>>

\* One iteration of "for email in participant_emails": the next participant
\* in list order; the provider decides the outcome.
FetchAvailability ==
    /\ rpc = "fetch"
    /\ Len(availability_responses) < meeting_request.attendees
    /\ LET email == Len(availability_responses) + 1
       IN \E outcome \in FetchOutcomes :
             /\ availability_responses' = Append(availability_responses,
                    IF outcome = "ok"
                    THEN FetchedAvailability(email, FirstHour, LastHour, calendars[email])
                    ELSE EmptyAvailability(email, FirstHour, LastHour))
             /\ fetch_outcome' = Append(fetch_outcome, outcome)
    /\ UNCHANGED <<expVars, routeVars, freeVars, calendars, meeting_request, rpc, availability_data,
                   common_slots, suggested_slots, schedule_result, storeVars>>

\* The freebusy query of the next participant ends in the transport's
\* timeout.  That is not an HttpError: it leaves get_calendar_availability
\* and _get_calendar_availability returns {"error": ..., "success": False};
\* the agent has no availability data to analyse.
FetchTimesOut ==
    /\ rpc = "fetch"
    /\ Len(availability_responses) < meeting_request.attendees
    /\ fetch_outcome' = Append(fetch_outcome, "timeout")
    /\ availability_data' = <<>>
    /\ rpc' = "analyze"
    /\ UNCHANGED <<expVars, routeVars, freeVars, calendars, meeting_request, availability_responses,
                   common_slots, suggested_slots, schedule_result, storeVars>>

\* The end of _get_calendar_availability: the JSON form of every response.
GetCalendarAvailabilityReturns ==
    /\ rpc = "fetch"
    /\ Len(availability_responses) = meeting_request.attendees
    /\ availability_data' =
           [i \in 1..Len(availability_responses) |->
               AvailabilityEntry(availability_responses[i],
                                 meeting_request.duration_minutes)]
    /\ rpc' = "analyze"
    /\ UNCHANGED <<expVars, routeVars, freeVars, calendars, meeting_request, availability_responses,
                   fetch_outcome, common_slots, suggested_slots, schedule_result,
                   storeVars>>

ResolveNext ==
    \/ CreateChatCompletion
    \/ FetchAvailability
    \/ FetchTimesOut
    \/ GetCalendarAvailabilityReturns
    \/ AnalyzeOptimalSlots
    \/ ProcessAgentResponse

SpecResolve == ResolveInit /\ [][ResolveNext]_vars

-----------------------------------------------------------------------------
\* The service as its clients see it: POST /schedule and POST /confirm on
\* the one SchedulingAgent.  Both routes are "async def" and never await,
\* so each request runs to its response before the next one starts.

MaxProposals == 2        \* scheduling requests that store a proposal
MaxConfirms == 2         \* confirm requests

\* The slot indexes a client may send: the indexes of a list of two slots
\* and those just outside it on either side.
SlotIndexes == (0 - max_suggestions)..(max_suggestions - 1)

\* The requests and calendars of the scheduling runs: one-hour meetings of
\* one or two attendees, each free all day or all day but for one hour.
ServiceRequests ==
    {r \in MeetingRequests :
        r.priority = "medium" /\ r.attendees <= 2 /\ r.duration_minutes = 60}
ServiceFreeLists == {FreeDictsOf(Instants), FreeDictsOf(Instants \ {FirstHour + 1})}

\* "if slot_index >= len(proposal.suggested_slots)"
IndexRejected(slot_index, slots) == slot_index >= Len(slots)

\* Python's list[slot_index]: a negative index counts from the end; "raise"
\* stands for IndexError.
ListIndex(slot_index, slots) ==
    IF 0 <= slot_index /\ slot_index < Len(slots) THEN slot_index + 1
    ELSE IF slot_index < 0 /\ 0 - slot_index <= Len(slots)
         THEN Len(slots) + slot_index + 1
         ELSE 0

\* The response of POST /confirm and the effects of confirm_meeting, given
\* what the calendar provider does.  event is "created" (an event id comes
\* back), "none" (create_calendar_event returns None) or "raises"
\* (_create_calendar_event catches it: success False).  emails are the
\* calls of _send_meeting_email, whose result confirm_meeting ignores.
ConfirmOutcome(store, proposal_id, slot_index, event) ==
    IF proposal_id \notin 1..Len(store)
    THEN [status_code |-> 400, detail |-> "Proposal not found", confirms |-> FALSE,
          events |-> <<>>, emails |-> <<>>]
    ELSE LET proposal == store[proposal_id]
             k == ListIndex(slot_index, proposal.suggested_slots)
         IN IF IndexRejected(slot_index, proposal.suggested_slots)
            THEN [status_code |-> 400, detail |-> "Invalid slot index",
                  confirms |-> FALSE, events |-> <<>>, emails |-> <<>>]
            ELSE IF k = 0
            THEN [status_code |-> 500, detail |-> "Internal server error",
                  confirms |-> FALSE, events |-> <<>>, emails |-> <<>>]
            ELSE IF event = "raises"
            THEN [status_code |-> 400, detail |-> "event error",
                  confirms |-> FALSE, events |-> <<>>, emails |-> <<>>]
            ELSE [status_code |-> 200, detail |-> "confirmed", confirms |-> TRUE,
                  events |-> IF event = "created"
                             THEN <<[proposal_id |-> proposal_id,
                                     start_time |-> proposal.suggested_slots[k].start_time,
                                     end_time |-> proposal.suggested_slots[k].end_time]>>
                             ELSE <<>>,
                  emails |-> <<proposal_id>>]

\* POST /confirm/{proposal_id}?selected_slot_index=...
ConfirmMeeting ==
    /\ confirm_count < MaxConfirms
    /\ \E proposal_id \in 1..(Len(proposals) + 1), slot_index \in SlotIndexes,
          event \in {"created", "none", "raises"} :
          LET out == ConfirmOutcome(proposals, proposal_id, slot_index, event)
          IN /\ proposals' = IF out.confirms
                             THEN [proposals EXCEPT ![proposal_id].status = "confirmed"]
                             ELSE proposals
             /\ calendar_events' = calendar_events \o out.events
             /\ sent_emails' = sent_emails \o out.emails
             /\ confirm_answer' =
                    [proposal_id |-> proposal_id, slot_index |-> slot_index,
                     status_code |-> out.status_code, detail |-> out.detail]
             /\ confirm_count' = confirm_count + 1
    /\ UNCHANGED <<expVars, routeVars, freeVars, runVars>>

\* POST /schedule: one whole run of schedule_meeting, for a request and the
\* availability_data the agent hands to the analysis.  A run that finds no
\* slot, or whose agent fails, leaves the store as it is.
ScheduleMeeting ==
    /\ Len(proposals) < MaxProposals
    /\ \E request \in ServiceRequests :
       \E frees \in [1..request.attendees -> ServiceFreeLists] :
          LET data == [i \in 1..request.attendees |->
                          [participant_email |-> i, free_slots |-> frees[i],
                           busy_slots |-> <<>>]]
              function_result == _analyze_optimal_slots(data, Requirements(request))
          IN /\ function_result.suggested_slots # <<>>
             /\ proposals' = StoreProposal(proposals,
                    MeetingProposal(request, function_result.suggested_slots,
                                    <<Len(function_result.common_slots),
                                      Len(function_result.suggested_slots)>>))
    /\ UNCHANGED <<expVars, routeVars, freeVars, runVars, calendar_events, sent_emails, confirm_answer,
                   confirm_count>>

ServiceInit ==
    /\ FreeIdle
    /\ RunIdle
    /\ StoreEmpty
    /\ ExpIdle
    /\ RouteIdle

ServiceNext == ScheduleMeeting \/ ConfirmMeeting

SpecService == ServiceInit /\ [][ServiceNext]_vars

-----------------------------------------------------------------------------
\* The scheduling routes: POST /schedule-legacy, whose body is a
\* LegacyScheduleMeetingRequest, and POST /schedule, which reads the
\* duration from the email text ("(\d+)\s*min") and builds the legacy
\* request inside its handler.

MaxRequests == 2         \* scheduling requests

\* The durations a client may ask for, in minutes.
RequestDurations == {14, 60, 480, 481}

\* duration_minutes: int = Field(30, ge=15, le=480)
DurationAccepted(duration_minutes) == 15 <= duration_minutes /\ duration_minutes <= 480

\* agent.schedule_meeting for the organizer and the additional participants
\* of the request: the agent fails (agent_error), or it fetches the
\* availability of every attendee, analyses it and stores a proposal when a
\* slot was found.
ScheduleRun(store, duration_minutes, extra, agent_error, frees) ==
    LET request == [duration_minutes |-> duration_minutes, priority |-> "medium",
                    attendees |-> 1 + extra]
        data == [i \in 1..request.attendees |->
                    [participant_email |-> i, free_slots |-> frees[i],
                     busy_slots |-> <<>>]]
        function_result == _analyze_optimal_slots(data, Requirements(request))
    IN IF agent_error
       THEN [success |-> FALSE, fetched |-> 0, store |-> store]
       ELSE IF function_result.suggested_slots = <<>>
       THEN [success |-> FALSE, fetched |-> request.attendees, store |-> store]
       ELSE [success |-> TRUE, fetched |-> request.attendees,
             store |-> StoreProposal(store,
                           MeetingProposal(request, function_result.suggested_slots,
                                           <<Len(function_result.common_slots),
                                             Len(function_result.suggested_slots)>>))]

\* POST /schedule-legacy.  FastAPI validates the body before the handler
\* runs (422); a run that fails is answered 200 with success False.
PostScheduleLegacy ==
    /\ http_count < MaxRequests
    /\ \E duration_minutes \in RequestDurations, extra \in 0..1, agent_error \in BOOLEAN :
       \E frees \in [1..(1 + extra) -> ServiceFreeLists] :
          /\ http_request' = [route |-> "/schedule-legacy",
                              duration_minutes |-> duration_minutes,
                              participants |-> extra]
          /\ IF ~DurationAccepted(duration_minutes)
             THEN /\ http_response' = [status_code |-> 422, success |-> FALSE]
                  /\ UNCHANGED <<proposals, fetch_count>>
             ELSE LET run == ScheduleRun(proposals, duration_minutes, extra, agent_error, frees)
                  IN /\ http_response' = [status_code |-> 200, success |-> run.success]
                     /\ proposals' = run.store
                     /\ fetch_count' = fetch_count + run.fetched
    /\ http_count' = http_count + 1
    /\ UNCHANGED <<expVars, freeVars, runVars, calendar_events, sent_emails,
                   confirm_answer, confirm_count, receive_request, receive_response,
                   depVars>>

\* POST /schedule.  The legacy request is built inside the handler's try
\* block, so its validation error is answered 500; a run that fails is
\* answered 400.
PostSchedule ==
    /\ http_count < MaxRequests
    /\ \E duration_minutes \in RequestDurations, extra \in 0..1, agent_error \in BOOLEAN :
       \E frees \in [1..(1 + extra) -> ServiceFreeLists] :
          /\ http_request' = [route |-> "/schedule",
                              duration_minutes |-> duration_minutes,
                              participants |-> extra]
          /\ IF ~DurationAccepted(duration_minutes)
             THEN /\ http_response' = [status_code |-> 500, success |-> FALSE]
                  /\ UNCHANGED <<proposals, fetch_count>>
             ELSE LET run == ScheduleRun(proposals, duration_minutes, extra, agent_error, frees)
                  IN /\ http_response' = [status_code |-> IF run.success THEN 200 ELSE 400,
                                          success |-> run.success]
                     /\ proposals' = run.store
                     /\ fetch_count' = fetch_count + run.fetched
    /\ http_count' = http_count + 1
    /\ UNCHANGED <<expVars, freeVars, runVars, calendar_events, sent_emails,
                   confirm_answer, confirm_count, receive_request, receive_response,
                   depVars>>

RoutesInit ==
    /\ FreeIdle
    /\ RunIdle
    /\ StoreEmpty
    /\ ExpIdle
    /\ RouteIdle

RoutesNext == PostScheduleLegacy \/ PostSchedule

SpecRoutes == RoutesInit /\ [][RoutesNext]_vars

-----------------------------------------------------------------------------
\* POST /receive.  The repository has two handlers for it: the one of the
\* stand-alone application src/main.py (served on port 5000) and
\* receive_meeting_request of app/api/routes/receive.py.  A moment is a day
\* of July 2025 and a minute of that day; every string carries +05:30.  An
\* absent optional field is "" (Subject), NoTime (Start, End) or 0
\* (Duration_mins).

At(date, minute) == [date |-> date, minute |-> minute]
Event(StartTime, EndTime, Summary) ==
    [StartTime |-> StartTime, EndTime |-> EndTime, Summary |-> Summary]

\* src/main.py: generate_scheduling_response.  The meeting is always
\* 2025-07-17 10:30-11:00; the second and the third person get mock events
\* around it.
generate_scheduling_response(processed_request) ==
    LET all_attendees == <<"teamadmin">> \o processed_request.Attendees
        meeting_summary == IF processed_request.Subject # ""
                           THEN processed_request.Subject
                           ELSE "Project Discussion Meeting"
        main_event == Event(At(17, 630), At(17, 660), meeting_summary)
        team_meet == Event(At(17, 600), At(17, 630), "Team Meet")
        lunch_event == Event(At(17, 780), At(17, 840), "Lunch with Customers")
        events(i) == IF i = 2 THEN <<team_meet, main_event>>
                     ELSE IF i = 3 THEN <<team_meet, main_event, lunch_event>>
                     ELSE <<main_event>>
    IN [status_code |-> 200,
        EventStart |-> At(17, 630),
        EventEnd |-> At(17, 660),
        Attendees |-> [i \in 1..Len(all_attendees) |->
                          [email |-> all_attendees[i], events |-> events(i)]]]

\* src/main.py: receive_scheduling_request -> process_scheduling_request.
\* SchedulingRequest ignores the fields it does not declare (Start, End,
\* Duration_mins); process_scheduling_logic copies the request.
receive_scheduling_request(request) == generate_scheduling_response(request)

\* app/models/api.py: the fields ScheduleMeetingRequest declares.
ScheduleMeetingRequestFields ==
    {"Request_id", "Datetime", "Location", "From", "Attendees", "Subject",
     "EmailContent", "title", "description", "duration_minutes", "organizer",
     "participants", "priority", "preferred_days", "user_preferences"}

\* extract_duration_from_content: "(\d+)\s*min", default "30".
extract_duration_from_content(content) ==
    IF "45 min" \in content THEN 45 ELSE 30

\* determine_meeting_date_from_content for a request of Wednesday
\* 02-07-2025: the day named in the text, else the next business day.
determine_meeting_date_from_content(content) ==
    IF "monday" \in content THEN 14 ELSE 3

\* determine_optimal_meeting_time: the hour named in the text, else 10:30.
determine_optimal_meeting_time(content, duration_mins, target_date) ==
    LET optimal == IF "9:00" \in content THEN 9 * 60 ELSE 10 * 60 + 30
        end_minute == optimal + duration_mins
    IN [start_time |-> At(target_date, optimal),
        end_time |-> At(target_date + (end_minute \div 1440), end_minute % 1440)]

\* get_mock_calendar_data_for_user
get_mock_calendar_data_for_user(email) ==
    CASE email = "userone" ->
             <<Event(At(15, 540), At(15, 1020), "AMD AI Workshop")>>
      [] email = "usertwo" ->
             <<Event(At(14, 540), At(14, 600), "1v1 with Team Member"),
               Event(At(15, 540), At(15, 1020), "AMD AI Workshop"),
               Event(At(16, 600), At(16, 690), "Meeting with Customers")>>
      [] OTHER -> <<>>

\* An answer without a scheduled meeting.
ErrorResponse(status_code) ==
    [status_code |-> status_code, EventStart |-> NoTime, EventEnd |-> NoTime,
     Attendees |-> <<>>]

\* app/api/routes/receive.py: receive_meeting_request.  The body is
\* validated as a ScheduleMeetingRequest (Subject is required: 422); the
\* handler then reads request.Start, request.End and request.Duration_mins,
\* and an AttributeError, like every exception, is answered 500.
receive_meeting_request(request) ==
    IF request.Subject = "" THEN ErrorResponse(422)
    ELSE IF ~({"Start", "End", "Duration_mins"} \subseteq ScheduleMeetingRequestFields)
    THEN ErrorResponse(500)
    ELSE LET is_processed_input == request.Start # NoTime /\ request.End # NoTime
                                       /\ request.Duration_mins # 0
             duration_mins == IF is_processed_input THEN request.Duration_mins
                              ELSE extract_duration_from_content(request.EmailContent)
             start_range == IF is_processed_input THEN request.Start.date
                            ELSE determine_meeting_date_from_content(request.EmailContent)
             optimal == determine_optimal_meeting_time(request.EmailContent,
                                                       duration_mins, start_range)
             all_attendee_emails == <<"teamadmin">> \o request.Attendees
             new_meeting_event == Event(optimal.start_time, optimal.end_time,
                                        request.Subject)
         IN [status_code |-> 200,
             EventStart |-> optimal.start_time,
             EventEnd |-> optimal.end_time,
             Attendees |-> [i \in 1..Len(all_attendee_emails) |->
                               [email |-> all_attendee_emails[i],
                                events |-> Append(get_mock_calendar_data_for_user(
                                                      all_attendee_emails[i]),
                                                  new_meeting_event)]]]

\* The bodies a client posts: the raw input, or the processed input that
\* also carries Start, End and Duration_mins; Subject is optional.
ReceivePhrases == {"monday", "9:00", "45 min"}
ReceiveAttendeeLists == {<<"userone">>, <<"userone", "usertwo">>}
ReceiveBodies ==
    {[Start |-> IF processed THEN At(14, 0) ELSE NoTime,
      End |-> IF processed THEN At(14, 1439) ELSE NoTime,
      Duration_mins |-> IF processed THEN 30 ELSE 0,
      Subject |-> Subject, Attendees |-> Attendees, EmailContent |-> EmailContent] :
        processed \in BOOLEAN, Subject \in {"", "Goals"},
        Attendees \in ReceiveAttendeeLists, EmailContent \in SUBSET ReceivePhrases}

ReceiveRequestOf(app, body) ==
    [app |-> app, Start |-> body.Start, End |-> body.End,
     Duration_mins |-> body.Duration_mins, Subject |-> body.Subject,
     Attendees |-> body.Attendees, EmailContent |-> body.EmailContent]

\* POST /receive of src/main.py.
ReceiveSchedulingRequest ==
    /\ http_count < MaxRequests
    /\ \E body \in ReceiveBodies :
          /\ receive_request' = ReceiveRequestOf("src/main.py", body)
          /\ receive_response' = receive_scheduling_request(body)
    /\ http_count' = http_count + 1
    /\ UNCHANGED <<expVars, freeVars, runVars, storeVars, http_request,
                   http_response, fetch_count, depVars>>

\* POST /receive of app/api/routes/receive.py.
ReceiveMeetingRequest ==
    /\ http_count < MaxRequests
    /\ \E body \in ReceiveBodies :
          /\ receive_request' = ReceiveRequestOf("app/api/routes/receive.py", body)
          /\ receive_response' = receive_meeting_request(body)
    /\ http_count' = http_count + 1
    /\ UNCHANGED <<expVars, freeVars, runVars, storeVars, http_request,
                   http_response, fetch_count, depVars>>

ReceiveInit == RoutesInit

ReceiveNext == ReceiveSchedulingRequest \/ ReceiveMeetingRequest

SpecReceive == ReceiveInit /\ [][ReceiveNext]_vars

-----------------------------------------------------------------------------
\* get_agent_service, the dependency of every meetings route.  It is a
\* plain function, so FastAPI calls it in a worker thread of the request;
\* the threads of concurrent requests interleave between its statements.
\* Client c posts a scheduling request and, once that is answered with a
\* proposal (proposal id c), asks for the status of that proposal.

otherVars == <<expVars, freeVars, runVars, storeVars, http_request, http_response,
               http_count, fetch_count, receive_request, receive_response>>

\* A request arrives and FastAPI resolves Depends(get_agent_service).
StartRequest(c) ==
    /\ dep_pc[c] = "idle"
    /\ \/ dep_request[c] = "none"
       \/ dep_request[c] = "schedule" /\ dep_result[c] = 200
    /\ dep_request' = [dep_request EXCEPT
                          ![c] = IF dep_request[c] = "none" THEN "schedule" ELSE "status"]
    /\ dep_pc' = [dep_pc EXCEPT ![c] = "check"]
    /\ UNCHANGED <<_agent_service, agent_proposals, dep_new, dep_agent, dep_result,
                   otherVars>>

\* "if _agent_service is None:"
CheckAgentService(c) ==
    /\ dep_pc[c] = "check"
    /\ dep_pc' = [dep_pc EXCEPT ![c] = IF _agent_service = 0 THEN "construct"
                                       ELSE "return"]
    /\ UNCHANGED <<_agent_service, agent_proposals, dep_request, dep_new, dep_agent,
                   dep_result, otherVars>>

\* "SchedulingAgent()": a new agent with "self.proposals = {}", or an
\* exception, which get_agent_service answers with HTTP 500.
ConstructAgent(c) ==
    /\ dep_pc[c] = "construct"
    /\ \E raises \in BOOLEAN :
          IF raises
          THEN /\ dep_result' = [dep_result EXCEPT ![c] = 500]
               /\ dep_pc' = [dep_pc EXCEPT ![c] = "idle"]
               /\ UNCHANGED <<agent_proposals, dep_new>>
          ELSE /\ agent_proposals' = Append(agent_proposals, {})
               /\ dep_new' = [dep_new EXCEPT ![c] = Len(agent_proposals) + 1]
               /\ dep_pc' = [dep_pc EXCEPT ![c] = "assign"]
               /\ UNCHANGED dep_result
    /\ UNCHANGED <<_agent_service, dep_request, dep_agent, otherVars>>

\* "_agent_service = ..." : the global takes the agent this call made.
AssignAgentService(c) ==
    /\ dep_pc[c] = "assign"
    /\ _agent_service' = dep_new[c]
    /\ dep_pc' = [dep_pc EXCEPT ![c] = "return"]
    /\ UNCHANGED <<agent_proposals, dep_request, dep_new, dep_agent, dep_result,
                   otherVars>>

\* "return _agent_service": the global as it is now.
ReturnAgentService(c) ==
    /\ dep_pc[c] = "return"
    /\ dep_agent' = [dep_agent EXCEPT ![c] = _agent_service]
    /\ dep_pc' = [dep_pc EXCEPT ![c] = "handle"]
    /\ UNCHANGED <<_agent_service, agent_proposals, dep_request, dep_new, dep_result,
                   otherVars>>

\* The route handler with the agent it was given: POST /schedule stores
\* the proposal in agent.proposals; GET /proposal/{proposal_id} answers
\* 404 when "proposal_id not in agent.proposals".
HandleRequest(c) ==
    /\ dep_pc[c] = "handle"
    /\ IF dep_request[c] = "schedule"
       THEN /\ agent_proposals' =
                   [agent_proposals EXCEPT ![dep_agent[c]] = @ \cup {c}]
            /\ dep_result' = [dep_result EXCEPT ![c] = 200]
       ELSE /\ dep_result' = [dep_result EXCEPT
                                 ![c] = IF c \in agent_proposals[dep_agent[c]]
                                        THEN 200 ELSE 404]
            /\ UNCHANGED agent_proposals
    /\ dep_pc' = [dep_pc EXCEPT ![c] = IF dep_request[c] = "schedule" THEN "idle"
                                       ELSE "done"]
    /\ UNCHANGED <<_agent_service, dep_request, dep_new, dep_agent, otherVars>>

DependencyInit == RoutesInit

DependencyNext ==
    \E c \in Clients :
        \/ StartRequest(c)
        \/ CheckAgentService(c)
        \/ ConstructAgent(c)
        \/ AssignAgentService(c)
        \/ ReturnAgentService(c)
        \/ HandleRequest(c)

SpecDependency == DependencyInit /\ [][DependencyNext]_vars

-----------------------------------------------------------------------------
\* One request of the experiment agent: parse_email_with_deepseek, then
\* _advanced_agentic_conflict_analysis on the calendars of the participants.

MaxEvents == 2           \* most events in one participant's calendar

\* The time phrases an email may contain.
TimePhrases == {"11:00", "10:00", "morning", "afternoon"}

\* The participants of a request: the organizer alone, or with one attendee.
ExpParticipantLists ==
    {<<"director">>, <<"director", "guest">>, <<"guest", "director">>}

\* Calendar events of the meeting date: 09:00-10:00, 10:00-11:00, 10:00-12:00.
CalendarEvents ==
    {[StartTime |-> ExpTime(0, w[1]), EndTime |-> ExpTime(0, w[2]), Summary |-> "Team Meet"] :
        w \in {<<9, 10>>, <<10, 11>>, <<10, 12>>}}

\* events().list(..., orderBy='startTime'): a calendar lists its events in
\* ascending order of start.
ExpCalendars ==
    {cal \in SeqUpTo(CalendarEvents, MaxEvents) :
        \A k \in 1..(Len(cal) - 1) : cal[k].StartTime <= cal[k + 1].StartTime}

ExpInit ==
    /\ FreeIdle
    /\ RunIdle
    /\ StoreEmpty
    /\ RouteIdle
    /\ email_content \in SUBSET TimePhrases
    /\ participants \in ExpParticipantLists
    /\ calendar_data \in [1..Len(participants) -> ExpCalendars]
    /\ parsed_info = NoParsedInfo
    /\ optimal_slots = <<>>
    /\ conflict_resolution = NoResolution
    /\ alternatives = <<>>
    /\ epc = "parse"

\* _advanced_agentic_email_analysis: the time preference comes from the
\* time phrases; urgency, authority and complexity come from the rest of
\* the email and the sender, the duration from complexity and authority.
ParseEmailWithDeepseek ==
    /\ epc = "parse"
    /\ \E urgency \in {"medium", "high"}, authority \in {"medium", "high"},
          complexity \in {"simple", "complex"} :
          LET time_intelligence == _extract_time_intelligence(email_content)
          IN parsed_info' =
                 [duration_minutes |->
                      _calculate_optimal_duration(complexity, Len(participants) - 1,
                                                  authority),
                  time_constraints |-> time_intelligence.constraints,
                  urgency |-> urgency,
                  attendee_priority |-> authority,
                  meeting_complexity |-> complexity,
                  optimal_time_preference |-> time_intelligence.preference]
    /\ epc' = "slots"
    /\ UNCHANGED <<email_content, participants, calendar_data, optimal_slots,
                   conflict_resolution, alternatives, freeVars, runVars, storeVars,
                   routeVars>>

CalculateOptimalTimeSlots ==
    /\ epc = "slots"
    /\ optimal_slots' =
           _calculate_optimal_time_slots(parsed_info.duration_minutes, parsed_info,
               participants, calendar_data, _analyze_participant_priorities(participants))
    /\ epc' = "resolve"
    /\ UNCHANGED <<email_content, participants, calendar_data, parsed_info,
                   conflict_resolution, alternatives, freeVars, runVars, storeVars,
                   routeVars>>

IntelligentConflictResolution ==
    /\ epc = "resolve"
    /\ conflict_resolution' = _intelligent_conflict_resolution(optimal_slots, parsed_info)
    /\ epc' = "alternatives"
    /\ UNCHANGED <<email_content, participants, calendar_data, parsed_info,
                   optimal_slots, alternatives, freeVars, runVars, storeVars, routeVars>>

GenerateIntelligentAlternatives ==
    /\ epc = "alternatives"
    /\ alternatives' =
           _generate_intelligent_alternatives(conflict_resolution.recommended_slot,
                                              parsed_info.duration_minutes)
    /\ epc' = "done"
    /\ UNCHANGED <<email_content, participants, calendar_data, parsed_info,
                   optimal_slots, conflict_resolution, freeVars, runVars, storeVars,
                   routeVars>>

ExpNext ==
    \/ ParseEmailWithDeepseek
    \/ CalculateOptimalTimeSlots
    \/ IntelligentConflictResolution
    \/ GenerateIntelligentAlternatives

SpecExperiment == ExpInit /\ [][ExpNext]_vars

-----------------------------------------------------------------------------
\* _calculate_free_slots on its own: any window, any busy list.

\* Busy periods as a caller can hand them over: any two datetimes, in any
\* order in the list; a period may be empty or inverted, or lie outside
\* the window.
BusyPeriods == {TimeSlot(s, e, FALSE) : s \in Times, e \in Times}

\* Windows of at least two hours, so that a busy period can lie wholly
\* before or wholly after one.
Windows == {w \in Times \X Times : w[1] < w[2] /\ w[2] - w[1] >= 2}

FreeInit ==
    /\ \E w \in Windows : start_date = w[1] /\ end_date = w[2]
    /\ busy_slots \in SeqUpTo(BusyPeriods, MaxBusy)
    /\ free_slots = <<>>
    /\ fpc = "call"
    /\ RunIdle
    /\ StoreEmpty
    /\ ExpIdle
    /\ RouteIdle

CalculateFreeSlots ==
    /\ fpc = "call"
    /\ free_slots' = _calculate_free_slots(start_date, end_date, busy_slots)
    /\ fpc' = "done"
    /\ UNCHANGED <<start_date, end_date, busy_slots, runVars, storeVars, expVars,
                   routeVars>>

FreeNext == CalculateFreeSlots

SpecFree == FreeInit /\ [][FreeNext]_vars

-----------------------------------------------------------------------------
\* Instants are the unit cells [t, t+1); every endpoint is an integer.
Covers(slot, t) == slot.start_time <= t /\ t < slot.end_time
CoveredBy(slots, t) == \E i \in 1..Len(slots) : Covers(slots[i], t)

BusyInsideWindow ==
    \A i \in 1..Len(busy_slots) :
        /\ busy_slots[i].start_time < busy_slots[i].end_time
        /\ start_date <= busy_slots[i].start_time
        /\ busy_slots[i].end_time <= end_date

\* C1: for busy intervals with start < end inside the window, in any order
\* and overlapping or not, the free intervals are non-empty, inside the
\* window, sorted by start, pairwise disjoint, and every instant of the
\* window is covered by a free interval or by a busy one, never by both.
C1_FreeIsComplement ==
    (fpc = "done" /\ BusyInsideWindow) =>
        /\ \A i \in 1..Len(free_slots) :
              /\ free_slots[i].start_time < free_slots[i].end_time
              /\ start_date <= free_slots[i].start_time
              /\ free_slots[i].end_time <= end_date
        /\ \A i, j \in 1..Len(free_slots) :
              i < j => free_slots[i].end_time <= free_slots[j].start_time
        /\ \A t \in start_date..(end_date - 1) :
              CoveredBy(free_slots, t) <=> ~CoveredBy(busy_slots, t)

\* The case of C1: overlapping busy intervals given out of order, one of
\* them nested in another, with free time on both sides.
C1_Witness ==
    /\ fpc = "done" /\ BusyInsideWindow
    /\ Len(busy_slots) >= 2
    /\ \E i, j \in 1..Len(busy_slots) :
          /\ i < j
          /\ busy_slots[j].start_time < busy_slots[i].start_time
          /\ busy_slots[i].start_time < busy_slots[j].end_time
          /\ busy_slots[i].end_time <= busy_slots[j].end_time
    /\ Len(free_slots) >= 2

-----------------------------------------------------------------------------
\* The analysis has run on availability_data.
Analysed == rpc \in {"process", "done"}

Inside(w, f) == f.start_time <= w.start_time /\ w.end_time <= f.end_time

\* The stretch [s, s + d) is free for the participant with these free slots.
FreeFor(slots, s, d) ==
    \E i \in 1..Len(slots) :
        slots[i].start_time <= s /\ s + Timedelta(d) <= slots[i].end_time

\* Some stretch of the required duration is free for every participant.
CommonStretchExists(data, d) ==
    \E s \in Times : \A p \in 1..Len(data) : FreeFor(data[p].free_slots, s, d)

\* C2: every shared window of the intersection loop is at least
\* duration_minutes long and lies inside a free interval of every
\* participant, for one or more participants.
C2_SharedWindowsLongAndFree ==
    Analysed =>
        \A k \in 1..Len(common_slots) :
            /\ TotalMinutes(common_slots[k].start_time, common_slots[k].end_time)
                   >= meeting_request.duration_minutes
            /\ \A p \in 1..Len(availability_data) :
                  \E i \in 1..Len(availability_data[p].free_slots) :
                      Inside(common_slots[k], availability_data[p].free_slots[i])

\* C3: the run ends without slots (and without an exception) exactly when
\* no stretch of the required duration is free for every participant.
C3_EmptyIffNoCommonStretch ==
    (rpc = "done" /\ schedule_result.error # "Agent error") =>
        (schedule_result.success
            <=> CommonStretchExists(availability_data, meeting_request.duration_minutes))

\* availability_data with its participants in the order given by perm.
Reordered(data, perm) == [i \in 1..Len(data) |-> data[perm[i]]]

SlotSet(slots) == {<<slots[i].start_time, slots[i].end_time>> : i \in 1..Len(slots)}

\* C4: the shared windows are the same set for every order of the
\* participants.
C4_OrderIndependent ==
    Analysed =>
        \A perm \in Permutations(1..Len(availability_data)) :
            SlotSet(CommonSlots(Reordered(availability_data, perm),
                                meeting_request.duration_minutes))
                = SlotSet(common_slots)

-----------------------------------------------------------------------------
\* The run fetched every calendar and analysed what it fetched.
AllFetched ==
    /\ Analysed
    /\ Len(fetch_outcome) = meeting_request.attendees
    /\ \A p \in 1..Len(fetch_outcome) : fetch_outcome[p] = "ok"

\* The shared windows of a run in which every fetch answers with cals.
SharedWindowsOf(cals, duration_minutes) ==
    CommonSlots([p \in 1..Len(cals) |->
                    AvailabilityEntry(FetchedAvailability(p, FirstHour, LastHour, cals[p]),
                                      duration_minutes)],
                duration_minutes)

\* C5: one more busy interval in any participant's calendar creates no
\* shared window: every instant a shared window covers afterwards was
\* covered by a shared window before.
C5_Monotone ==
    AllFetched =>
        \A p \in 1..Len(calendars) : \A b \in ProviderPeriods :
            LET more == [calendars EXCEPT ![p] = Append(@, b)]
                after == SharedWindowsOf(more, meeting_request.duration_minutes)
            IN \A t \in Instants : CoveredBy(after, t) => CoveredBy(common_slots, t)

\* availability_data without the participants whose fetch failed.
OthersData ==
    SelectSeq(availability_data,
              LAMBDA entry : fetch_outcome[entry.participant_email] # "http_error")

\* C6: a participant whose fetch fails with a provider error is taken as
\* having no busy interval and as free for the whole window; the run goes
\* on and keeps a shared window whenever the other participants have one.
C6_FailOpen ==
    /\ \A p \in 1..Len(availability_responses) :
          fetch_outcome[p] = "http_error" =>
              /\ availability_responses[p].busy_slots = <<>>
              /\ availability_responses[p].free_slots
                     = <<TimeSlot(FirstHour, LastHour, TRUE)>>
    /\ (Analysed /\ Len(availability_data) = meeting_request.attendees
          /\ CommonSlots(OthersData, meeting_request.duration_minutes) # <<>>)
       => common_slots # <<>>

\* C7: a run whose fetch timed out still ends with a result in which the
\* participant of that fetch is free for the whole window and the other
\* participants' availability is kept.
C7_TimeoutIsFailOpen ==
    (rpc = "done" /\ \E p \in 1..Len(fetch_outcome) : fetch_outcome[p] = "timeout") =>
        /\ Len(availability_data) = meeting_request.attendees
        /\ \A p \in 1..Len(fetch_outcome) :
              fetch_outcome[p] = "timeout" =>
                  /\ availability_data[p].busy_slots = <<>>
                  /\ \E i \in 1..Len(availability_data[p].free_slots) :
                        /\ availability_data[p].free_slots[i].start_time = FirstHour
                        /\ availability_data[p].free_slots[i].end_time = LastHour

-----------------------------------------------------------------------------
\* The step is a confirm request for proposal id.
ConfirmStepFor(id) ==
    /\ confirm_count' = confirm_count + 1
    /\ confirm_answer'.proposal_id = id

LastAnswer == confirm_answer'

ConfirmHasNoEffect == UNCHANGED <<proposals, calendar_events, sent_emails>>

\* C8: a proposal's status is always pending, confirmed or cancelled, and
\* confirmed is terminal: a confirm request for a confirmed proposal is
\* answered with an error (whatever its code) and changes neither the
\* store, nor the calendar, nor the emails sent.
C8_ConfirmedIsTerminal ==
    /\ [](\A id \in 1..Len(proposals) :
             proposals[id].status \in {"pending", "confirmed", "cancelled"})
    /\ [][\A id \in 1..Len(proposals) :
             (proposals[id].status = "confirmed" /\ ConfirmStepFor(id)) =>
                 (LastAnswer.status_code # 200 /\ ConfirmHasNoEffect)]_vars

\* C9: a confirm request whose slot index is negative, or is the number of
\* suggested slots or more, is answered with an error (whatever its code)
\* and has no effect on the proposal, the calendar or the emails.
C9_OutOfRangeRejected ==
    [][\A id \in 1..Len(proposals) :
          (/\ ConfirmStepFor(id)
           /\ \/ LastAnswer.slot_index < 0
              \/ LastAnswer.slot_index >= Len(proposals[id].suggested_slots)) =>
              (LastAnswer.status_code # 200 /\ ConfirmHasNoEffect)]_vars

EventsOf(id) == {k \in 1..Len(calendar_events) : calendar_events[k].proposal_id = id}

\* confirm_meeting sends one confirmation email for each confirm that
\* succeeds, right before it sets the status.
ConfirmationsOf(id) == {k \in 1..Len(sent_emails) : sent_emails[k] = id}

\* C10: of the confirm requests for one proposal, whichever is served
\* first, at most one performs the confirmation, and the proposal never
\* has more than one calendar event.
C10_OneConfirmWins ==
    \A id \in 1..Len(proposals) :
        /\ Cardinality(ConfirmationsOf(id)) <= 1
        /\ Cardinality(EventsOf(id)) <= 1

-----------------------------------------------------------------------------
\* C11: every step of the service keeps every stored proposal in the store
\* under its id with the meeting request, suggested slots and reasoning it
\* has; a proposal's status changes only in a confirm request for its own
\* id (a scheduling run or a confirm for another id leaves it as it is).
C11_StoredProposalsKept ==
    [][\A id \in 1..Len(proposals) :
          /\ id <= Len(proposals')
          /\ proposals'[id].meeting_request = proposals[id].meeting_request
          /\ proposals'[id].suggested_slots = proposals[id].suggested_slots
          /\ proposals'[id].reasoning = proposals[id].reasoning
          /\ (proposals'[id].status # proposals[id].status => ConfirmStepFor(id))]_vars

\* The case of C11: two proposals stored, the first one confirmed and the
\* second one, of another request, still pending after a later confirm
\* request for the first.
C11_Witness ==
    /\ Len(proposals) = 2
    /\ proposals[1].status = "confirmed"
    /\ proposals[2].status = "pending"
    /\ proposals[1].meeting_request # proposals[2].meeting_request
    /\ confirm_count = 2
    /\ confirm_answer.proposal_id = 1

-----------------------------------------------------------------------------
\* The experiment agent has ranked its candidate slots.
Scored == epc \in {"resolve", "alternatives", "done"}

\* The half-open intervals [a1, a2) and [b1, b2) share an instant.
HalfOpenOverlap(a1, a2, b1, b2) == a1 < b2 /\ b1 < a2

\* The events of participant i that overlap the slot.
OverlappingEvents(slot, i) ==
    {k \in 1..Len(calendar_data[i]) :
        HalfOpenOverlap(slot.start, slot.end,
                        calendar_data[i][k].StartTime, calendar_data[i][k].EndTime)}

WeightOf(i) == ParticipantPriority(participants[i]).weight

RecordsFor(slot, i) ==
    {k \in 1..Len(slot.conflicts) : slot.conflicts[k].participant = participants[i]}

\* 5 x weight summed over the participants 1..n who have an overlapping event.
RECURSIVE ParticipantPenalty(_, _)
ParticipantPenalty(slot, n) ==
    IF n = 0 THEN 0
    ELSE ParticipantPenalty(slot, n - 1)
         + (IF OverlappingEvents(slot, n) # {} THEN 5 * WeightOf(n) ELSE 0)

\* C12: every ranked slot carries exactly one conflict record, of severity
\* 5 x weight, for each participant with at least one overlapping event and
\* none for the others, and its score is 100 plus its bonuses minus the sum
\* of 5 x weight over those participants (not below 0).
C12_PenaltyPerParticipant ==
    Scored =>
        \A s \in 1..Len(optimal_slots) :
            LET slot == optimal_slots[s]
            IN /\ \A i \in 1..Len(participants) :
                      /\ Cardinality(RecordsFor(slot, i))
                             = (IF OverlappingEvents(slot, i) # {} THEN 1 ELSE 0)
                      /\ \A k \in RecordsFor(slot, i) :
                             slot.conflicts[k].severity = 5 * WeightOf(i)
               /\ slot.score = Max(0, 100 + SlotBonus(ExpHour(slot.start), parsed_info)
                                         - ParticipantPenalty(slot, Len(participants)))

\* The (participant, event) pairs that overlap the slot.
OverlappingPairs(slot) ==
    {pair \in (1..Len(participants)) \X (1..MaxEvents) :
        pair[2] \in OverlappingEvents(slot, pair[1])}

\* Slot c1 overlaps exactly one event, of participant i; slot c2 starts at
\* the end of that event, overlaps no event and has the bonuses of c1.
ScenarioB(c1, c2, i) ==
    /\ Cardinality(OverlappingPairs(optimal_slots[c1])) = 1
    /\ \E k \in OverlappingEvents(optimal_slots[c1], i) :
          optimal_slots[c2].start = calendar_data[i][k].EndTime
    /\ OverlappingPairs(optimal_slots[c2]) = {}
    /\ SlotBonus(ExpHour(optimal_slots[c1].start), parsed_info)
           = SlotBonus(ExpHour(optimal_slots[c2].start), parsed_info)

\* C13: a slot that overlaps exactly one event, of participant X, has one
\* conflict record, for X, of severity 5 x X's weight; a slot of the same
\* day that starts at the end of that event (and overlaps no other event)
\* has no conflict and, with equal bonuses, is ranked ahead of the first.
C13_ScenarioB ==
    Scored =>
        \A c1, c2 \in 1..Len(optimal_slots) : \A i \in 1..Len(participants) :
            ScenarioB(c1, c2, i) =>
                /\ Len(optimal_slots[c1].conflicts) = 1
                /\ optimal_slots[c1].conflicts[1].participant = participants[i]
                /\ optimal_slots[c1].conflicts[1].severity = 5 * WeightOf(i)
                /\ optimal_slots[c2].conflicts = <<>>
                /\ c2 < c1

\* The case of C13: the director is busy 09:00-10:00 (the guest is free);
\* the 09:00 and the 10:00 slot are both ranked.
C13_Witness ==
    /\ Scored
    /\ Len(participants) = 2
    /\ \E c1, c2 \in 1..Len(optimal_slots) : \E i \in 1..Len(participants) :
          /\ ScenarioB(c1, c2, i)
          /\ participants[i] = "director"
          /\ ExpHour(optimal_slots[c1].start) = 9
          /\ ExpHour(optimal_slots[c2].start) = 10

C15_UrgentPrefersEarly ==
    (Scored /\ parsed_info.urgency = "high") =>
        \A i, j \in 1..Len(optimal_slots) :
            (/\ ExpHour(optimal_slots[i].start) = 9
             /\ ExpHour(optimal_slots[j].start) = 15
             /\ optimal_slots[i].conflicts = optimal_slots[j].conflicts) =>
                optimal_slots[i].score > optimal_slots[j].score

Resolved == epc \in {"alternatives", "done"}

\* The strategy table of the Conflict Resolver.
StrategyTable ==
    [urgency \in {"medium", "high"}, authority \in {"medium", "high"} |->
        CASE urgency = "high" /\ authority = "high" -> "override_lower_priority"
          [] urgency = "high" /\ authority # "high" -> "find_immediate_alternative"
          [] urgency # "high" /\ authority = "high" -> "executive_priority"
          [] OTHER -> "collaborative_optimization"]

\* C16: the strategy is the entry of the strategy table for the urgency and
\* the authority of the request, whatever the ranked slots and their
\* conflicts are, and the recommendation is the first ranked slot.
C16_StrategyByTable ==
    Resolved =>
        /\ conflict_resolution.strategy_used
               = StrategyTable[parsed_info.urgency, parsed_info.attendee_priority]
        /\ optimal_slots # <<>>
        /\ conflict_resolution.recommended_slot = optimal_slots[1]

\* The case of C16: an urgent request of a sender of medium authority whose
\* recommended slot has conflicts.
C16_Witness ==
    /\ Resolved
    /\ parsed_info.urgency = "high"
    /\ parsed_info.attendee_priority = "medium"
    /\ conflict_resolution.conflicts_detected
    /\ conflict_resolution.strategy_used = "find_immediate_alternative"

AlternativeOffsets == {60, 120, 0 - 60, 24 * 60}

\* C17: at most 3 alternatives are returned (none without a
\* recommendation); each starts at the recommended start plus 1 hour, plus
\* 2 hours, minus 1 hour or plus 1 day, lasts as long as the recommended
\* slot, and starts at an hour of 9..17.
C17_AlternativesWellFormed ==
    epc = "done" =>
        LET recommended == conflict_resolution.recommended_slot
        IN /\ Len(alternatives) <= 3
           /\ recommended = NoSlot => alternatives = <<>>
           /\ \A a \in 1..Len(alternatives) :
                 /\ alternatives[a].start - recommended.start \in AlternativeOffsets
                 /\ alternatives[a].end - alternatives[a].start
                        = recommended.end - recommended.start
                 /\ ExpHour(alternatives[a].start) \in 9..17

\* The case of C17: the recommendation is the 09:00 slot, so the
\* alternative one hour earlier (08:00) is discarded and the next-day
\* alternative is returned as the third.
C17_Witness ==
    /\ epc = "done"
    /\ ExpHour(conflict_resolution.recommended_slot.start) = 9
    /\ Len(alternatives) = 3
    /\ alternatives[3].start = conflict_resolution.recommended_slot.start + 24 * 60

\* The score the Slot Scorer gives an alternative against the calendars.
ScorerScore(alt) ==
    _calculate_slot_score(alt.start, alt.end, participants, calendar_data,
                          _analyze_participant_priorities(participants),
                          parsed_info).total_score

\* C18: the alternatives are in descending order of the score the Slot
\* Scorer gives them against the participants' calendars.
C18_AlternativesByScorerScore ==
    epc = "done" =>
        \A a, b \in 1..Len(alternatives) :
            a < b => ScorerScore(alternatives[a]) >= ScorerScore(alternatives[b])

CandidateHours == {ExpHour(optimal_slots[s].start) : s \in 1..Len(optimal_slots)}

\* The hour a time phrase names.
PhraseHour(phrase) == IF phrase = "11:00" THEN 11 ELSE 10

SpecificHours == {PhraseHour(phrase) : phrase \in email_content \cap {"11:00", "10:00"}}

\* C19: an email that mentions one specific hour gets exactly that hour as
\* candidate; an email that mentions none gets 9, 10, 11 for a morning
\* preference, 14, 15, 16 for an afternoon preference and all six for a
\* flexible one; no candidate starts outside 9..17.
C19_CandidateHours ==
    Scored =>
        /\ CandidateHours \subseteq 9..17
        /\ Cardinality(SpecificHours) = 1 => CandidateHours = SpecificHours
        /\ SpecificHours = {} =>
              CandidateHours =
                  CASE parsed_info.optimal_time_preference = "morning" -> {9, 10, 11}
                    [] parsed_info.optimal_time_preference = "afternoon" -> {14, 15, 16}
                    [] OTHER -> {9, 10, 11, 14, 15, 16}

-----------------------------------------------------------------------------
\* C20: a scheduling request whose duration is outside 15..480 minutes, or
\* whose participant list is empty, is answered with a validation error
\* (HTTP 400 or 422); no availability is fetched for it and the proposal
\* store is left as it is.
C20_InvalidRequestRejected ==
    [][(/\ http_count' = http_count + 1
        /\ \/ http_request'.duration_minutes \notin 15..480
           \/ http_request'.participants = 0) =>
           (/\ http_response'.status_code \in {400, 422}
            /\ UNCHANGED <<proposals, fetch_count>>)]_vars

-----------------------------------------------------------------------------
\* Every busy period has start < end (it may still lie outside the window).
BusyWellFormed ==
    \A i \in 1..Len(busy_slots) :
        busy_slots[i].start_time < busy_slots[i].end_time

\* C21: for busy intervals with start < end that may start before the
\* window, end after it or lie wholly outside it, every free interval
\* returned satisfies start_date <= start < end <= end_date and overlaps no
\* busy interval.
C21_FreeInsideWindow ==
    (fpc = "done" /\ BusyWellFormed) =>
        \A i \in 1..Len(free_slots) :
            /\ start_date <= free_slots[i].start_time
            /\ free_slots[i].start_time < free_slots[i].end_time
            /\ free_slots[i].end_time <= end_date
            /\ \A t \in free_slots[i].start_time..(free_slots[i].end_time - 1) :
                   ~CoveredBy(busy_slots, t)

\* The busy list without its periods that have start >= end.
ProperBusy(busy) == SelectSeq(busy, LAMBDA b : b.start_time < b.end_time)

\* C23: a busy interval with start >= end is dropped: the free intervals
\* for a busy list equal the free intervals for the same list without its
\* intervals that have start >= end.
C23_InvertedBusyDropped ==
    fpc = "done" =>
        free_slots = _calculate_free_slots(start_date, end_date, ProperBusy(busy_slots))

-----------------------------------------------------------------------------
\* The persons of the last /receive request: the organizer, then every
\* attendee.
ReceivePersons == <<"teamadmin">> \o receive_request.Attendees

\* C22: every answer of /receive to a well-formed body of either shape
\* (raw, or processed with Start, End and Duration_mins; Subject optional)
\* is a success that has EventStart and EventEnd set and lists the
\* organizer and every attendee, each with the scheduled meeting among
\* their events.
C22_ReceiveSucceeds ==
    receive_request.app # "none" =>
        /\ receive_response.status_code = 200
        /\ receive_response.EventStart # NoTime
        /\ receive_response.EventEnd # NoTime
        /\ Len(receive_response.Attendees) = Len(ReceivePersons)
        /\ \A i \in 1..Len(ReceivePersons) :
              /\ receive_response.Attendees[i].email = ReceivePersons[i]
              /\ \E k \in 1..Len(receive_response.Attendees[i].events) :
                    LET event == receive_response.Attendees[i].events[k]
                    IN /\ event.StartTime = receive_response.EventStart
                       /\ event.EndTime = receive_response.EventEnd

-----------------------------------------------------------------------------
\* C24: every ranked slot lies inside a stretch that is free for all
\* participants: no ranked slot [start, end) overlaps an event of any
\* participant (a candidate that does not fit is discarded).
C24_RankedInsideSharedWindow ==
    Scored =>
        \A s \in 1..Len(optimal_slots) :
            \A i \in 1..Len(participants) :
                OverlappingEvents(optimal_slots[s], i) = {}

-----------------------------------------------------------------------------
\* The Slot Scorer's score of a shared window for the request of the run.
ScoreOf(slot) == _score_time_slot(slot, Requirements(meeting_request))

\* C25: the recommendation (suggested slot index 0) has a score greater
\* than or equal to the score of every shared window, however many shared
\* windows there are.
C25_RecommendationIsBest ==
    (Analysed /\ suggested_slots # <<>>) =>
        \A c \in 1..Len(common_slots) :
            ScoreOf(suggested_slots[1]) >= ScoreOf(common_slots[c])

-----------------------------------------------------------------------------
\* C26: the final score of every scored slot is >= 0, whatever its start
\* hour, weekday and the priority of the meeting.
C26_ScoreNotNegative ==
    Analysed =>
        \A c \in 1..Min(Len(common_slots), max_suggestions * 2) :
            ScoreOf(common_slots[c]) >= 0

-----------------------------------------------------------------------------
\* C27: the lunch penalty (0.2) is taken off the score of a slot exactly
\* when its start hour is 12; for every other start hour the score is the
\* score before the penalty.
C27_LunchPenaltyAtTwelve ==
    Analysed =>
        \A c \in 1..Min(Len(common_slots), max_suggestions * 2) :
            LET slot == common_slots[c]
                before == ScoreBeforeLunch(slot, Requirements(meeting_request))
            IN ScoreOf(slot) = IF Hour(slot.start_time) = 12
                               THEN FloatAdd(before, -2)
                               ELSE before

-----------------------------------------------------------------------------
\* C28: a proposal is confirmed, and a confirmation email for it is sent,
\* only if a calendar event was created for it: every confirmed proposal and
\* every confirmation email has a calendar event of its proposal.
C28_ConfirmedOnlyWithEvent ==
    /\ \A id \in 1..Len(proposals) :
          proposals[id].status = "confirmed" => EventsOf(id) # {}
    /\ \A e \in 1..Len(sent_emails) : EventsOf(sent_emails[e]) # {}

-----------------------------------------------------------------------------
\* C29: under any interleaving of the first requests get_agent_service
\* creates at most one SchedulingAgent, and a status request for a proposal
\* that a completed schedule request stored finds it (is never answered
\* 404).
C29_SingleProposalStore ==
    /\ Len(agent_proposals) <= 1
    /\ \A c \in Clients : dep_request[c] = "status" => dep_result[c] # 404

-----------------------------------------------------------------------------
\* C30: every suggested slot of the analysis, and every slot of a stored
\* proposal, is exactly as long as the requested duration_minutes, for any
\* number of participants.
C30_SlotLengthIsDuration ==
    /\ Analysed =>
          \A k \in 1..Len(suggested_slots) :
              TotalMinutes(suggested_slots[k].start_time, suggested_slots[k].end_time)
                  = meeting_request.duration_minutes
    /\ \A id \in 1..Len(proposals) :
          \A k \in 1..Len(proposals[id].suggested_slots) :
              LET slot == proposals[id].suggested_slots[k]
              IN TotalMinutes(slot.start_time, slot.end_time)
                     = proposals[id].meeting_request.duration_minutes

====
